---- MODULE Spec2Model ----
(***************************************************************************)
(* Model of mapviz_plugins::PosePublisherPlugin                            *)
(* (src/mapviz_plugins/src/pose_publisher_plugin.cpp).                     *)
(*                                                                         *)
(* All handlers run on the single Qt event thread, so every handler is one *)
(* atomic action.  The collaborators (Qt widgets, the map canvas, tf, the  *)
(* ROS publisher) are modelled by the part of their contract the plugin    *)
(* uses:                                                                   *)
(*   - ui_.pushButtonPose  : its checked flag;                             *)
(*   - ui_.topic           : its text;                                     *)
(*   - ui_.outputframe     : a QComboBox, the item list and currentIndex   *)
(*                           (0-based, -1 when nothing is selected);       *)
(*   - pose_pub_           : the topic the publisher was advertised on,    *)
(*                           "" while it is still default-constructed;     *)
(*   - MapGlCoordToFixedFrame(event pos) : the fixed-frame point it        *)
(*                           returns is the input of the pointer actions.  *)
(* ros::Time::now() (the header stamp), the covariance (left default) and  *)
(* the texts PrintInfo writes to ui_.status in handlers other than         *)
(* handleMouseRelease are not modelled.                                    *)
(***************************************************************************)
EXTENDS Integers, Sequences, FiniteSets, TLC

\* ------------------------------------------------------------------ bounds
\* Fixed-frame coordinates of pointer events range over 0..MaxCoord.
MaxCoord == 1
\* LoadConfig is not offered an output_frame once the list holds this many.
MaxItems == 2

\* -------------------------------------------------------------- input sets
Coords == 0..MaxCoord
Points == Coords \X Coords

\* Topic texts: "" is the empty line edit.
TopicNames == {"/pose_out", "/goal"}
Topics == TopicNames \cup {""}

\* Frame names tf may know, and names a configuration file may carry.
TfNames == {"map"}
CfgNames == {"map", "odom"}
\* Values the host may hand to SetTargetFrame.
FixedFrames == {"map"}

\* Qt::MouseButton values used by the events.
Buttons == {"LeftButton", "RightButton"}

\* swri_transform_util::_wgs84_frame
wgs84_frame == "/wgs84"

\* ------------------------------------------------------------------ state
VARIABLES
    is_mouse_down_,        \* Drag Session active
    arrow_angle_,          \* heading, as an Angle (see Atan2)
    arrow_tail_position_,  \* fixed-frame point of the press
    pose_checked,          \* ui_.pushButtonPose->isChecked()
    topic,                 \* ui_.topic->text()
    pose_pub_,             \* topic pose_pub_ is advertised on, "" if none
    outputframe,           \* ui_.outputframe: [items, index]
    target_frame_,         \* MapvizPlugin::target_frame_
    ev,                    \* the handler that ran last
    ret,                   \* what eventFilter returned for it
    out,                   \* what it handed to pose_pub_.publish
    head_pos,              \* the point of the event if it was a move
    press_pt,              \* history: point of the last accepted press
    moved,                 \* history: a move event arrived since that press
    ever_armed,            \* history: the toggle was turned on at some time
    cancelled,             \* history: the toggle was turned off in the
                           \* Drag Session that is active now
    loaded_frame           \* history: the output_frame LoadConfig appended,
                           \* while only updateFrames ran since; else ""

vars == <<is_mouse_down_, arrow_angle_, arrow_tail_position_, pose_checked,
          topic, pose_pub_, outputframe, target_frame_, ev, ret, out,
          head_pos, press_pt, moved, ever_armed, cancelled, loaded_frame>>

\* The plugin's own state and its widgets (everything but the outputs of the
\* last event and the history variables).
picker == <<is_mouse_down_, arrow_angle_, arrow_tail_position_, pose_checked,
            topic, pose_pub_, outputframe, target_frame_>>

\* ------------------------------------------------------------ arithmetic
Abs(n) == IF n < 0 THEN -n ELSE n

RECURSIVE GCD(_, _)
GCD(a, b) == IF b = 0 THEN a ELSE GCD(b, a % b)

(***************************************************************************)
(* An angle in (-pi, pi] is written exactly as the primitive integer       *)
(* vector <<c, s>> on the ray of (cos a, sin a): <<1, 0>> is 0, <<0, 1>>   *)
(* is pi/2, <<-1, 0>> is pi, <<1, -1>> is -pi/4.  Two angles are equal iff *)
(* their vectors are.                                                      *)
(***************************************************************************)
AngleZero == <<1, 0>>

\* Variant of Atan2: the two arguments exchanged, atan2(dx, dy).
Atan2_Swapped(dy, dx) ==
    IF dx = 0 /\ dy = 0
    THEN AngleZero
    ELSE LET g == GCD(Abs(dx), Abs(dy)) IN <<dy \div g, dx \div g>>

\* atan2(dy, dx) of <cmath>; atan2(0, 0) is 0.
Atan2(dy, dx) ==
    IF dx = 0 /\ dy = 0
    THEN AngleZero
    ELSE LET g == GCD(Abs(dx), Abs(dy)) IN <<dx \div g, dy \div g>>

Deltas == (0 - MaxCoord)..MaxCoord
Angles == {Atan2(dy, dx) : dy \in Deltas, dx \in Deltas}

\* tf::createQuaternionFromYaw followed by tf::quaternionTFToMsg: the
\* rotation about the vertical axis by yaw.
createQuaternionFromYaw(yaw) == [axis |-> "z", angle |-> yaw]

\* ------------------------------------------------------------- QComboBox
\* currentText(): the text of the current item, "" when there is none.
currentText(cb) == IF cb.index = -1 THEN "" ELSE cb.items[cb.index + 1]

\* findText(): index of the first item with that text, -1 when absent.
findText(cb, text) ==
    IF \E i \in 1..Len(cb.items) : cb.items[i] = text
    THEN (CHOOSE i \in 1..Len(cb.items) :
              /\ cb.items[i] = text
              /\ \A j \in 1..(i - 1) : cb.items[j] # text) - 1
    ELSE -1

\* addItem(): appends; the first item of an empty box becomes current.
addItem(cb, text) ==
    [items |-> Append(cb.items, text),
     index |-> IF Len(cb.items) = 0 THEN 0 ELSE cb.index]

\* clear(): no items, no current item.
clear(cb) == [items |-> <<>>, index |-> -1]

\* setCurrentIndex(): an index outside the list selects nothing.
setCurrentIndex(cb, i) ==
    [items |-> cb.items,
     index |-> IF i >= 0 /\ i < Len(cb.items) THEN i ELSE -1]

RECURSIVE addItems(_, _)
addItems(cb, texts) ==
    IF texts = <<>> THEN cb
    ELSE addItems(addItem(cb, Head(texts)), Tail(texts))

\* ------------------------------------------------------------------ Init
\* The constructor sets is_mouse_down_; arrow_tail_position_ is a default
\* QPointF; arrow_angle_ is not initialised, so it starts with any value.
Init ==
    /\ is_mouse_down_ = FALSE
    /\ arrow_angle_ \in Angles
    /\ arrow_tail_position_ = <<0, 0>>
    /\ pose_checked = FALSE
    /\ topic = ""
    /\ pose_pub_ = ""
    /\ outputframe = [items |-> <<>>, index |-> -1]
    /\ target_frame_ = ""
    /\ ev = "init"
    /\ ret = FALSE
    /\ out = <<>>
    /\ head_pos = <<0, 0>>
    /\ press_pt = <<0, 0>>
    /\ moved = FALSE
    /\ ever_armed = FALSE
    /\ cancelled = FALSE
    /\ loaded_frame = ""

\* --------------------------------------------------------------- pointer
\* Variant of handleMousePress: line 164 missing, the angle of the previous
\* session is kept.
handleMousePress_KeepsAngle(button, pos) ==
    /\ ev' = "press"
    /\ out' = <<>>
    /\ head_pos' = <<0, 0>>
    /\ loaded_frame' = ""
    /\ IF pose_checked /\ button = "LeftButton"
       THEN /\ is_mouse_down_' = TRUE
            /\ arrow_tail_position_' = pos
            /\ ret' = TRUE
            /\ press_pt' = pos
            /\ moved' = FALSE
            /\ cancelled' = FALSE
       ELSE /\ ret' = FALSE
            /\ UNCHANGED <<is_mouse_down_, arrow_tail_position_, press_pt,
                           moved, cancelled>>
    /\ UNCHANGED <<arrow_angle_, pose_checked, topic, pose_pub_, outputframe,
                   target_frame_, ever_armed>>

\* Variant of handleMousePress: lines 154-159 missing, a press is accepted
\* whether or not the toggle is set.
handleMousePress_Unarmed(button, pos) ==
    /\ ev' = "press"
    /\ out' = <<>>
    /\ head_pos' = <<0, 0>>
    /\ loaded_frame' = ""
    /\ IF button = "LeftButton"
       THEN /\ is_mouse_down_' = TRUE
            /\ arrow_angle_' = AngleZero
            /\ arrow_tail_position_' = pos
            /\ ret' = TRUE
            /\ press_pt' = pos
            /\ moved' = FALSE
            /\ cancelled' = FALSE
       ELSE /\ ret' = FALSE
            /\ UNCHANGED <<is_mouse_down_, arrow_angle_,
                           arrow_tail_position_, press_pt, moved, cancelled>>
    /\ UNCHANGED <<pose_checked, topic, pose_pub_, outputframe,
                   target_frame_, ever_armed>>

\* Variant of handleMousePress: line 161 missing, any button begins a
\* session.
handleMousePress_AnyButton(button, pos) ==
    /\ ev' = "press"
    /\ out' = <<>>
    /\ head_pos' = <<0, 0>>
    /\ loaded_frame' = ""
    /\ IF pose_checked
       THEN /\ is_mouse_down_' = TRUE
            /\ arrow_angle_' = AngleZero
            /\ arrow_tail_position_' = pos
            /\ ret' = TRUE
            /\ press_pt' = pos
            /\ moved' = FALSE
            /\ cancelled' = FALSE
       ELSE /\ ret' = FALSE
            /\ UNCHANGED <<is_mouse_down_, arrow_angle_,
                           arrow_tail_position_, press_pt, moved, cancelled>>
    /\ UNCHANGED <<pose_checked, topic, pose_pub_, outputframe,
                   target_frame_, ever_armed>>

\* handleMousePress; pos is MapGlCoordToFixedFrame(event->localPos()).
handleMousePress(button, pos) ==
    /\ ev' = "press"
    /\ out' = <<>>
    /\ head_pos' = <<0, 0>>
    /\ loaded_frame' = ""
    /\ IF ~pose_checked
       THEN /\ ret' = FALSE
            /\ UNCHANGED <<is_mouse_down_, arrow_angle_,
                           arrow_tail_position_, press_pt, moved, cancelled>>
       ELSE IF button = "LeftButton"
       THEN /\ is_mouse_down_' = TRUE
            /\ arrow_angle_' = AngleZero
            /\ arrow_tail_position_' = pos
            /\ ret' = TRUE
            /\ press_pt' = pos
            /\ moved' = FALSE
            /\ cancelled' = FALSE
       ELSE /\ ret' = FALSE
            /\ UNCHANGED <<is_mouse_down_, arrow_angle_,
                           arrow_tail_position_, press_pt, moved, cancelled>>
    /\ UNCHANGED <<pose_checked, topic, pose_pub_, outputframe,
                   target_frame_, ever_armed>>

\* Variant of handleMouseMove: the tail follows the pointer.
handleMouseMove_MovesTail(pos) ==
    /\ ev' = "move"
    /\ out' = <<>>
    /\ head_pos' = pos
    /\ loaded_frame' = ""
    /\ UNCHANGED cancelled
    /\ ret' = FALSE
    /\ moved' = TRUE
    /\ IF is_mouse_down_
       THEN /\ arrow_angle_' =
                   Atan2(pos[2] - arrow_tail_position_[2],
                         pos[1] - arrow_tail_position_[1])
            /\ arrow_tail_position_' = pos
       ELSE UNCHANGED <<arrow_angle_, arrow_tail_position_>>
    /\ UNCHANGED <<is_mouse_down_, pose_checked, topic, pose_pub_,
                   outputframe, target_frame_, press_pt, ever_armed>>

\* handleMouseMove; pos is MapGlCoordToFixedFrame(event->localPos()).
handleMouseMove(pos) ==
    /\ ev' = "move"
    /\ out' = <<>>
    /\ head_pos' = pos
    /\ loaded_frame' = ""
    /\ UNCHANGED cancelled
    /\ ret' = FALSE
    /\ moved' = TRUE
    /\ arrow_angle_' =
           IF is_mouse_down_
           THEN Atan2(pos[2] - arrow_tail_position_[2],
                      pos[1] - arrow_tail_position_[1])
           ELSE arrow_angle_
    /\ UNCHANGED <<is_mouse_down_, arrow_tail_position_, pose_checked, topic,
                   pose_pub_, outputframe, target_frame_, press_pt,
                   ever_armed>>

\* The PoseWithCovarianceStamped built by handleMouseRelease.
Pose ==
    [frame_id |-> target_frame_,
     x |-> arrow_tail_position_[1],
     y |-> arrow_tail_position_[2],
     z |-> 0,
     orientation |-> createQuaternionFromYaw(arrow_angle_)]

\* pose_pub_.publish(pose), with the status line printed after it: the pose,
\* the topic the publisher is advertised on ("": an invalid publisher, which
\* delivers nothing), and the topic and frame the status line names.
Published ==
    [pose |-> Pose,
     pub |-> pose_pub_,
     status |-> <<"Pose published to to topic: ", topic,
                  "in frame ", target_frame_>>]

\* Variant of handleMouseRelease: line 197 missing, the session stays active.
handleMouseRelease_KeepsSession ==
    /\ ev' = "release"
    /\ head_pos' = <<0, 0>>
    /\ loaded_frame' = ""
    /\ cancelled' = FALSE
    /\ IF is_mouse_down_ /\ pose_checked
       THEN /\ out' = <<Published>>
            /\ pose_checked' = FALSE
            /\ ret' = TRUE
       ELSE /\ ret' = FALSE
            /\ out' = <<>>
            /\ UNCHANGED pose_checked
    /\ UNCHANGED <<is_mouse_down_, arrow_angle_, arrow_tail_position_, topic,
                   pose_pub_, outputframe, target_frame_, press_pt, moved,
                   ever_armed>>

\* Variant of handleMouseRelease: lines 192-195 missing, a release is
\* handled whether or not a session is active.
handleMouseRelease_NoActiveGuard ==
    /\ ev' = "release"
    /\ head_pos' = <<0, 0>>
    /\ loaded_frame' = ""
    /\ cancelled' = FALSE
    /\ is_mouse_down_' = FALSE
    /\ IF ~pose_checked
       THEN /\ ret' = FALSE
            /\ out' = <<>>
            /\ UNCHANGED pose_checked
       ELSE /\ out' = <<Published>>
            /\ pose_checked' = FALSE
            /\ ret' = TRUE
    /\ UNCHANGED <<arrow_angle_, arrow_tail_position_, topic, pose_pub_,
                   outputframe, target_frame_, press_pt, moved, ever_armed>>

\* Variant of handleMouseRelease: the toggle is unset only when the
\* publisher is advertised.
handleMouseRelease_DisarmsOnlyIfBound ==
    /\ ev' = "release"
    /\ head_pos' = <<0, 0>>
    /\ loaded_frame' = ""
    /\ cancelled' = FALSE
    /\ IF ~is_mouse_down_
       THEN /\ ret' = FALSE
            /\ out' = <<>>
            /\ UNCHANGED <<is_mouse_down_, pose_checked>>
       ELSE /\ is_mouse_down_' = FALSE
            /\ IF ~pose_checked
               THEN /\ ret' = FALSE
                    /\ out' = <<>>
                    /\ UNCHANGED pose_checked
               ELSE /\ out' = <<Published>>
                    /\ pose_checked' = (pose_pub_ = "")
                    /\ ret' = TRUE
    /\ UNCHANGED <<arrow_angle_, arrow_tail_position_, topic, pose_pub_,
                   outputframe, target_frame_, press_pt, moved, ever_armed>>

\* Variant of handleMouseRelease: lines 199-203 missing, the toggle is not
\* looked at.
handleMouseRelease_IgnoresToggle ==
    /\ ev' = "release"
    /\ head_pos' = <<0, 0>>
    /\ loaded_frame' = ""
    /\ cancelled' = FALSE
    /\ IF ~is_mouse_down_
       THEN /\ ret' = FALSE
            /\ out' = <<>>
            /\ UNCHANGED <<is_mouse_down_, pose_checked>>
       ELSE /\ is_mouse_down_' = FALSE
            /\ out' = <<Published>>
            /\ pose_checked' = FALSE
            /\ ret' = TRUE
    /\ UNCHANGED <<arrow_angle_, arrow_tail_position_, topic, pose_pub_,
                   outputframe, target_frame_, press_pt, moved, ever_armed>>

\* Variant of handleMouseRelease: line 218 missing, the toggle stays set.
handleMouseRelease_StaysArmed ==
    /\ ev' = "release"
    /\ head_pos' = <<0, 0>>
    /\ loaded_frame' = ""
    /\ cancelled' = FALSE
    /\ IF ~is_mouse_down_
       THEN /\ ret' = FALSE
            /\ out' = <<>>
            /\ UNCHANGED is_mouse_down_
       ELSE /\ is_mouse_down_' = FALSE
            /\ IF ~pose_checked
               THEN /\ ret' = FALSE
                    /\ out' = <<>>
               ELSE /\ out' = <<Published>>
                    /\ ret' = TRUE
    /\ UNCHANGED <<pose_checked, arrow_angle_, arrow_tail_position_, topic,
                   pose_pub_, outputframe, target_frame_, press_pt, moved,
                   ever_armed>>

\* handleMouseRelease.
handleMouseRelease ==
    /\ ev' = "release"
    /\ head_pos' = <<0, 0>>
    /\ loaded_frame' = ""
    /\ cancelled' = FALSE
    /\ IF ~is_mouse_down_
       THEN /\ ret' = FALSE
            /\ out' = <<>>
            /\ UNCHANGED <<is_mouse_down_, pose_checked>>
       ELSE /\ is_mouse_down_' = FALSE
            /\ IF ~pose_checked
               THEN /\ ret' = FALSE
                    /\ out' = <<>>
                    /\ UNCHANGED pose_checked
               ELSE /\ out' = <<Published>>
                    /\ pose_checked' = FALSE
                    /\ ret' = TRUE
    /\ UNCHANGED <<arrow_angle_, arrow_tail_position_, topic, pose_pub_,
                   outputframe, target_frame_, press_pt, moved, ever_armed>>

\* Draw: whether the arrow is rendered (at the tail, rotated by the angle).
Draw == IF is_mouse_down_
        THEN <<[tail |-> arrow_tail_position_, yaw |-> arrow_angle_]>>
        ELSE <<>>

\* --------------------------------------------------------------- widgets
\* Every handler below is no pointer event: eventFilter is not involved,
\* nothing is published.
NoPointer ==
    ev' = "other" /\ ret' = FALSE /\ out' = <<>> /\ head_pos' = <<0, 0>>

\* The user clicks ui_.pushButtonPose; on_pushButtonPose_toggled only sets
\* or restores the override cursor.
on_pushButtonPose_toggled(checked) ==
    /\ pose_checked # checked
    /\ pose_checked' = checked
    /\ ever_armed' = (ever_armed \/ checked)
    /\ cancelled' = (cancelled \/ (is_mouse_down_ /\ ~checked))
    /\ loaded_frame' = ""
    /\ NoPointer
    /\ UNCHANGED <<is_mouse_down_, arrow_angle_, arrow_tail_position_, topic,
                   pose_pub_, outputframe, target_frame_, press_pt, moved>>

\* pose_pub_ after topicChanged(t).
advertise(t) == IF t # "" THEN t ELSE pose_pub_

\* The user edits ui_.topic (textEdited), which calls topicChanged.
topicChanged(t) ==
    /\ topic' = t
    /\ pose_pub_' = advertise(t)
    /\ loaded_frame' = ""
    /\ NoPointer
    /\ UNCHANGED cancelled
    /\ UNCHANGED <<is_mouse_down_, arrow_angle_, arrow_tail_position_,
                   pose_checked, outputframe, target_frame_, press_pt, moved,
                   ever_armed>>

\* timerCallback: enables the button and resets the status text.
timerCallback ==
    /\ loaded_frame' = ""
    /\ NoPointer
    /\ UNCHANGED cancelled
    /\ UNCHANGED <<picker, press_pt, moved, ever_armed>>

\* The user picks item i of ui_.outputframe.
selectFrame(i) ==
    /\ i \in 0..(Len(outputframe.items) - 1)
    /\ outputframe' = setCurrentIndex(outputframe, i)
    /\ loaded_frame' = ""
    /\ NoPointer
    /\ UNCHANGED cancelled
    /\ UNCHANGED <<is_mouse_down_, arrow_angle_, arrow_tail_position_,
                   pose_checked, topic, pose_pub_, target_frame_, press_pt,
                   moved, ever_armed>>

\* The host tells the plugin the fixed frame of the map.
SetTargetFrame(f) ==
    /\ target_frame_' = f
    /\ loaded_frame' = ""
    /\ NoPointer
    /\ UNCHANGED cancelled
    /\ UNCHANGED <<is_mouse_down_, arrow_angle_, arrow_tail_position_,
                   pose_checked, topic, pose_pub_, outputframe, press_pt,
                   moved, ever_armed>>

\* ---------------------------------------------------------- configuration
\* A YAML node: a function from the keys it holds to their values.
Nodes ==
    UNION {[D -> Topics \cup CfgNames] : D \in SUBSET {"topic", "output_frame"}}

ConfigNodes ==
    {n \in Nodes :
        /\ "topic" \in DOMAIN n => n["topic"] \in Topics
        /\ "output_frame" \in DOMAIN n => n["output_frame"] \in CfgNames}

\* swri_yaml_util::FindValue
FindValue(node, key) == key \in DOMAIN node

\* Variant of LoadConfig: line 279 missing, the text is set and topicChanged
\* is not called.
LoadConfig_NoAdvertise(node) ==
    /\ FindValue(node, "output_frame") => Len(outputframe.items) < MaxItems
    /\ IF FindValue(node, "topic")
       THEN topic' = node["topic"]
       ELSE UNCHANGED topic
    /\ IF FindValue(node, "output_frame")
       THEN /\ outputframe' = addItem(outputframe, node["output_frame"])
            /\ loaded_frame' = node["output_frame"]
       ELSE /\ UNCHANGED outputframe
            /\ loaded_frame' = ""
    /\ NoPointer
    /\ UNCHANGED <<is_mouse_down_, arrow_angle_, arrow_tail_position_,
                   pose_checked, pose_pub_, target_frame_, press_pt, moved,
                   ever_armed, cancelled>>

\* LoadConfig: the topic is set and advertised as by an edit; the output
\* frame is appended to ui_.outputframe.
LoadConfig(node) ==
    /\ FindValue(node, "output_frame") => Len(outputframe.items) < MaxItems
    /\ IF FindValue(node, "topic")
       THEN /\ topic' = node["topic"]
            /\ pose_pub_' = advertise(node["topic"])
       ELSE UNCHANGED <<topic, pose_pub_>>
    /\ IF FindValue(node, "output_frame")
       THEN /\ outputframe' = addItem(outputframe, node["output_frame"])
            /\ loaded_frame' = node["output_frame"]
       ELSE /\ UNCHANGED outputframe
            /\ loaded_frame' = ""
    /\ NoPointer
    /\ UNCHANGED cancelled
    /\ UNCHANGED <<is_mouse_down_, arrow_angle_, arrow_tail_position_,
                   pose_checked, target_frame_, press_pt, moved, ever_armed>>

\* SaveConfig: the two values the emitter receives.
SaveConfig ==
    [topic |-> topic, output_frame |-> currentText(outputframe)]

\* ------------------------------------------------------------ frame list
\* What tf_->getFrameStrings may return: the known names, each once.
FrameLists ==
    {<<>>} \cup {<<f>> : f \in TfNames}
           \cup {<<fg[1], fg[2]>> :
                     fg \in {q \in TfNames \X TfNames : q[1] # q[2]}}

\* The candidate list: the tf frames, then the wgs84 frame if supported.
Candidates(tf_frames, supports_wgs84) ==
    IF supports_wgs84 THEN Append(tf_frames, wgs84_frame) ELSE tf_frames

\* Variant of Rebuild: line 394 missing, an absent selection is appended but
\* not selected again.
Rebuild_NoRestore(cb, frames) ==
    LET current_output == currentText(cb)
        filled == addItems(clear(cb), frames)
    IN IF current_output # "" /\ findText(filled, current_output) < 0
       THEN addItem(filled, current_output)
       ELSE filled

\* The rebuild of lines 370-398: the candidates, then the previous selection
\* (appended when absent) selected again.
Rebuild(cb, frames) ==
    LET current_output == currentText(cb)
        filled == addItems(clear(cb), frames)
    IN IF current_output # ""
       THEN LET kept == IF findText(filled, current_output) < 0
                        THEN addItem(filled, current_output)
                        ELSE filled
            IN setCurrentIndex(kept, findText(kept, current_output))
       ELSE filled

\* ui_.outputframe after updateFrames: with equal counts the function returns
\* at line 367 whether or not an item differs (the return is not governed by
\* the if above it).
Refreshed(cb, frames) ==
    IF Len(cb.items) = Len(frames) THEN cb ELSE Rebuild(cb, frames)

\* updateFrames, on frame_timer_'s timeout.
updateFrames(tf_frames, supports_wgs84) ==
    /\ outputframe' =
           Refreshed(outputframe, Candidates(tf_frames, supports_wgs84))
    /\ NoPointer
    /\ UNCHANGED <<cancelled, loaded_frame>>
    /\ UNCHANGED <<is_mouse_down_, arrow_angle_, arrow_tail_position_,
                   pose_checked, topic, pose_pub_, target_frame_, press_pt,
                   moved, ever_armed>>

\* ------------------------------------------------------------------ Next
Next ==
    \/ \E b \in Buttons, p \in Points : handleMousePress(b, p)
    \/ \E p \in Points : handleMouseMove(p)
    \/ handleMouseRelease
    \/ \E c \in BOOLEAN : on_pushButtonPose_toggled(c)
    \/ \E t \in Topics : topicChanged(t)
    \/ timerCallback
    \/ \E i \in 0..(MaxItems + 1) : selectFrame(i)
    \/ \E f \in FixedFrames : SetTargetFrame(f)
    \/ \E n \in ConfigNodes : LoadConfig(n)
    \/ \E l \in FrameLists, w \in BOOLEAN : updateFrames(l, w)

Spec == Init /\ [][Next]_vars

\* ================================================================ claims
PointerEvents == {"press", "move", "release"}

\* The last event handed a pose to pose_pub_.publish.
Handed == out # <<>>

\* The pose reached a topic: the publisher it was handed to is advertised.
Delivered == Handed /\ out[1].pub # ""

\* a is the two-argument arctangent of (dy, dx): the primitive vector on the
\* ray through (dx, dy), and 0 for the zero vector.
IsAtan2(a, dy, dx) ==
    IF dx = 0 /\ dy = 0
    THEN a = AngleZero
    ELSE /\ a[1] * dy - a[2] * dx = 0
         /\ a[1] * dx + a[2] * dy > 0
         /\ GCD(Abs(a[1]), Abs(a[2])) = 1

\* C1: a release arriving while a Drag Session is active and the toggle is
\* set ends the session, hands exactly one pose to the publisher, unsets the
\* toggle and is consumed, whatever events came before.
C1_ReleaseArmedPublishes ==
    [][(ev' = "release" /\ is_mouse_down_ /\ pose_checked)
        => /\ ~is_mouse_down_'
           /\ Len(out') = 1
           /\ ~pose_checked'
           /\ ret' = TRUE]_vars

\* C1 witness: a consumed release that published, after a move, a topic edit
\* and a frame-list change.
C1_Witness ==
    /\ ev = "release" /\ ret /\ Len(out) = 1
    /\ ~is_mouse_down_ /\ ~pose_checked
    /\ moved /\ pose_pub_ # "" /\ outputframe.items # <<>>

\* C2 (as claimed): every pose handed to the publisher carries the frame
\* selected in ui_.outputframe as its header frame id.
C2_FrameIdIsSelectedFrame ==
    Handed => out[1].pose.frame_id = currentText(outputframe)

\* C3 (as claimed): while the topic text is empty no pose is delivered to any
\* topic.
C3_EmptyTopicDeliversNothing ==
    topic = "" => ~Delivered

\* C4: every published pose has position (x, y, 0) with (x, y) the point of
\* the most recent accepted press; moves in between do not change it.
C4_PositionIsPressPoint ==
    Handed => /\ out[1].pose.x = press_pt[1]
              /\ out[1].pose.y = press_pt[2]
              /\ out[1].pose.z = 0

\* C4 witness: a pose published after a move that turned the arrow, at a
\* press point other than the origin.
C4_Witness ==
    /\ Handed /\ moved
    /\ out[1].pose.orientation.angle # AngleZero
    /\ <<out[1].pose.x, out[1].pose.y>> = press_pt
    /\ press_pt # <<0, 0>>

\* C5: a release arriving when no Drag Session is active publishes nothing,
\* changes no picker state and is not consumed.
C5_ReleaseIdleNoOp ==
    [][(ev' = "release" /\ ~is_mouse_down_)
        => /\ ret' = FALSE
           /\ out' = <<>>
           /\ UNCHANGED picker]_vars

\* C5 witness: a release that left the picker armed with a topic advertised:
\* it met no active session.
C5_Witness ==
    ev = "release" /\ ~ret /\ pose_checked /\ pose_pub_ # ""

\* C6 (as claimed): every release arriving while the toggle is set leaves the
\* toggle unset.
C6_ReleaseArmedDisarms ==
    [][(ev' = "release" /\ pose_checked) => ~pose_checked']_vars

\* C6 (amended): every release arriving while the toggle is set and a Drag
\* Session is active leaves the toggle unset, whether or not a topic is
\* configured.
C6_ReleaseArmedActiveDisarms ==
    [][(ev' = "release" /\ pose_checked /\ is_mouse_down_)
        => ~pose_checked']_vars

\* C6 witness: a release that disarmed with no topic ever configured.
C6_Witness ==
    ev = "release" /\ ret /\ Handed /\ ~pose_checked
        /\ topic = "" /\ out[1].pub = ""

\* C7: a pose published by a release that follows its press with no move in
\* between has heading angle 0.
C7_NoMoveAngleZero ==
    (Handed /\ ~moved)
        => out[1].pose.orientation = createQuaternionFromYaw(AngleZero)

\* C7 witness: a pose published with no move since its press.
C7_Witness ==
    Handed /\ ~moved /\ ev = "release" /\ ret

\* C8: a move during an active session sets the angle to the two-argument
\* arctangent of (head.y - tail.y, head.x - tail.x), tail being the press
\* point; no event but a move or a press changes the angle, and a release
\* publishes the angle it finds.
C8_AngleIsAtan2 ==
    [][/\ (ev' = "move" /\ is_mouse_down_)
          => IsAtan2(arrow_angle_', head_pos'[2] - press_pt[2],
                                    head_pos'[1] - press_pt[1])
       /\ (ev' \notin {"move", "press"}) => arrow_angle_' = arrow_angle_
       /\ (ev' = "release" /\ out' # <<>>)
          => out'[1].pose.orientation
                 = createQuaternionFromYaw(arrow_angle_)]_vars

\* C8 witness: a pose published with a heading in the second quadrant.
C8_Witness ==
    Handed /\ moved /\ out[1].pose.orientation.angle = <<-1, 1>>

\* C9: while the toggle has never been turned on, no event is consumed, no
\* Drag Session is active, nothing is published and Draw renders no arrow.
C9_NeverArmedInert ==
    ~ever_armed
        => ~ret /\ ~is_mouse_down_ /\ out = <<>> /\ Draw = <<>>

\* C9 witness: a release, after a move, with the toggle never turned on.
C9_Witness ==
    ~ever_armed /\ ev = "release" /\ moved

Range(seq) == {seq[i] : i \in 1..Len(seq)}

\* The displayed list a rebuild is meant to leave for candidates c when s
\* was selected: the candidates in order, then s if it is not among them.
Rebuilt(c, s) == IF s # "" /\ s \notin Range(c) THEN Append(c, s) ELSE c

\* C11: frame-list refresh is idempotent: after a refresh tick, a second tick
\* with the same candidate list leaves the displayed list and the selected
\* entry as the first tick left them.
C11_RefreshIdempotent ==
    [][\A l \in FrameLists, w \in BOOLEAN :
          updateFrames(l, w)
              => Refreshed(outputframe', Candidates(l, w)) = outputframe']_vars

\* C11 witness: a loaded frame unknown to tf, appended and selected by the
\* refresh ticks that rebuilt the list since.
C11_Witness ==
    /\ loaded_frame = "odom"
    /\ outputframe = [items |-> <<"map", wgs84_frame, "odom">>, index |-> 2]

\* C12 (as claimed): after any refresh a non-empty frame name selected before
\* it is still the selected entry, and when it is absent from the candidates
\* the displayed list is the candidates followed by it.
C12_SelectionKeptAndAppended ==
    [][\A l \in FrameLists, w \in BOOLEAN :
          (updateFrames(l, w) /\ currentText(outputframe) # "")
              => /\ currentText(outputframe') = currentText(outputframe)
                 /\ currentText(outputframe) \notin Range(Candidates(l, w))
                       => outputframe'.items
                              = Append(Candidates(l, w),
                                       currentText(outputframe))]_vars

\* C13 (as claimed): loading what SaveConfig emitted into a picker whose
\* frame list is empty or holds only what refresh ticks put there restores
\* the saved topic text (the publisher advertised on it when non-empty) and
\* the saved output frame as the selected one.
C13_ConfigRoundTrip ==
    [][\A n \in ConfigNodes :
          (/\ DOMAIN n = {"topic", "output_frame"}
           /\ Range(outputframe.items) \subseteq TfNames \cup {wgs84_frame}
           /\ LoadConfig(n))
              => /\ SaveConfig' = [topic |-> n["topic"],
                                   output_frame |-> n["output_frame"]]
                 /\ n["topic"] # "" => pose_pub_' = n["topic"]]_vars

\* C14 (as claimed): a refresh leaves the displayed list alone only when it
\* equals the candidate list item by item; otherwise the list becomes the
\* candidates in order, followed only by the previous selection if absent.
C14_SkipOnlyWhenEqual ==
    [][\A l \in FrameLists, w \in BOOLEAN :
          updateFrames(l, w)
              => IF outputframe.items = Candidates(l, w)
                 THEN outputframe' = outputframe
                 ELSE outputframe'.items
                          = Rebuilt(Candidates(l, w),
                                    currentText(outputframe))]_vars

\* C15 (as claimed): once the toggle was turned off during the active Drag
\* Session, no event publishes a pose at that session's tail point until a
\* new press is accepted.
C15_CancelledDragNotPublished ==
    [][cancelled
        => \/ out' = <<>>
           \/ <<out'[1].pose.x, out'[1].pose.y>> # press_pt]_vars

\* C16 (as claimed): an output frame loaded from configuration is in the
\* displayed list after every sequence of refresh ticks that follows the load.
C16_LoadedFrameKept ==
    loaded_frame # "" => loaded_frame \in Range(outputframe.items)

\* C17: while the toggle is set, a press with the left button is consumed and
\* begins a Drag Session (active, angle 0, tail at the press location); a
\* press with any other button is not consumed and changes no picker state; a
\* move is never reported as consumed.
C17_PressAndMove ==
    [][/\ \A b \in Buttons, p \in Points :
            (handleMousePress(b, p) /\ pose_checked)
                => IF b = "LeftButton"
                   THEN /\ ret'
                        /\ is_mouse_down_'
                        /\ arrow_angle_' = AngleZero
                        /\ arrow_tail_position_' = p
                   ELSE /\ ~ret'
                        /\ UNCHANGED picker
       /\ ev' = "move" => ~ret']_vars

\* C17 witness: an accepted press at the far corner, while the publisher is
\* advertised.
C17_Witness ==
    /\ ev = "press" /\ ret /\ pose_checked /\ is_mouse_down_
    /\ arrow_angle_ = AngleZero
    /\ arrow_tail_position_ = <<MaxCoord, MaxCoord>>
    /\ pose_pub_ # ""

\* C18: whenever the topic text is non-empty, pose_pub_ is advertised on
\* exactly that topic; a pose published then goes to that topic and the status
\* line names the topic it went to.
C18_PublisherFollowsTopic ==
    /\ topic # "" => pose_pub_ = topic
    /\ (Handed /\ topic # "")
          => /\ out[1].pub = topic
             /\ out[1].status[2] = out[1].pub

\* C18 witness: a pose published to "/goal" while the topic text is "/goal"
\* and the frame list holds a loaded frame.
C18_Witness ==
    /\ Handed /\ topic = "/goal" /\ out[1].pub = "/goal"
    /\ "odom" \in Range(outputframe.items)

\* C19: at most one pose is published per arming: a publish happens only
\* while the toggle is set and leaves it unset with no active Drag Session;
\* the toggle becomes set again only by being turned on; and while it is
\* unset a press is not consumed and begins no session.
C19_OnePosePerArming ==
    [][/\ (ev' = "release" /\ out' # <<>>)
            => pose_checked /\ ~pose_checked' /\ ~is_mouse_down_'
       /\ (~pose_checked /\ pose_checked') => on_pushButtonPose_toggled(TRUE)
       /\ (ev' = "press" /\ ~pose_checked)
            => ~ret' /\ UNCHANGED is_mouse_down_]_vars

\* C19 witness: a press that is not consumed, made after a pose was published
\* and before the toggle is turned on again.
C19_Witness ==
    /\ ev = "press" /\ ~ret /\ ~pose_checked /\ ~is_mouse_down_
    /\ ever_armed /\ press_pt # <<0, 0>> /\ pose_pub_ # ""

====
